---- MODULE Spec2Model ----
(***************************************************************************)
(* Model of the reconciliation pass of syntaxia, src/src/actions/config.rs *)
(* (`run` and the functions it calls), against a remote guild that stores  *)
(* what the create and edit calls send.  Every remote call is one step: it *)
(* is awaited before the next one is issued, and it either succeeds or     *)
(* fails with a platform error.                                            *)
(***************************************************************************)
EXTENDS Integers, Sequences, FiniteSets, TLC

\* ---------------------------------------------------------------- bounds
\* Number of invocations of `run` in one behaviour.
MaxPasses == 2

\* Invocations that may be in flight; the sequential specification uses 1.
Procs == {1, 2}
SeqProcs == {1}

\* ---------------------------------------------------------------- Option<T>
None == {}
Some(v) == {v}
IsSome(o) == o # {}
Unwrap(o) == CHOOSE v \in o : TRUE

\* `position as u16` (config.rs:212, config.rs:239): a u32 narrowed to u16.
U16 == 65536

\* A narrowing that clamps to the largest u16 instead of wrapping.
AsU16_Saturating(n) == IF n < U16 THEN n ELSE U16 - 1

AsU16(n) == n % U16

Range(s) == {s[i] : i \in DOMAIN s}

\* ---------------------------------------------------------------- settings.rs
\* ChannelConfig (settings.rs:41-52); parent_category is never read by the pass.
ChannelConfig(name, topic, nsfw, position) ==
    [name |-> name, topic |-> topic, nsfw |-> nsfw, position |-> position]

\* CategoryConfig (settings.rs:30-37); channels is a map from key to ChannelConfig.
CategoryConfig(channels, description, nsfw) ==
    [channels |-> channels, description |-> description, nsfw |-> nsfw]

\* ServerConfig (settings.rs:17-26); description is never read by the pass.
ServerConfig(name, icon_url, categories) ==
    [name |-> name, icon_url |-> icon_url, categories |-> categories]

NoChannels == [k \in {} |-> ChannelConfig("", None, None, None)]
NoCategories == [k \in {} |-> CategoryConfig(NoChannels, None, None)]

\* ---------------------------------------------------------------- remote resources
\* GuildChannel as the pass reads it: id is the index in the guild's channel list.
GuildChannel(kind, name, parent_id, topic, nsfw, position) ==
    [kind |-> kind, name |-> name, parent_id |-> parent_id,
     topic |-> topic, nsfw |-> nsfw, position |-> position]

\* PartialGuild::icon_url(): the CDN address built from the icon hash, if any.
icon_url(guild) ==
    IF IsSome(guild.icon) THEN Some("cdn/" \o Unwrap(guild.icon)) ELSE None

\* ---------------------------------------------------------------- request payloads
\* The fields a create or edit call transmits; an absent field is None.
Payload(kind, name, topic, nsfw, position, parent_id, icon) ==
    [kind |-> kind, name |-> name, topic |-> topic, nsfw |-> nsfw,
     position |-> position, parent_id |-> parent_id, icon |-> icon]

NoPayload == Payload(None, None, None, None, None, None, None)

NarrowPosition(position) ==
    IF IsSome(position) THEN Some(AsU16(Unwrap(position))) ELSE None

\* update_guild_info, config.rs:67-68: EditGuild::default().name(..).
EditGuildOf(server_config) ==
    Payload(None, Some(server_config.name), None, None, None, None, None)

\* find_or_create_category, config.rs:114-123.
CreateCategoryOf(category_name, category_config) ==
    Payload(Some("Category"), Some(category_name), category_config.description,
            category_config.nsfw, None, None, None)

\* update_category_if_needed built like create_channel: the edit also
\* transmits the kind Text.
EditCategoryOf_WithKind(category_config) ==
    Payload(Some("Text"), None, category_config.description, category_config.nsfw,
            None, None, None)

\* update_category_if_needed, config.rs:137-145.
EditCategoryOf(category_config) ==
    Payload(None, None, category_config.description, category_config.nsfw,
            None, None, None)

\* update_channel_if_needed without line 201: the name is not re-sent.
EditChannelOf_NoName(channel_config) ==
    Payload(None, None, channel_config.topic,
            channel_config.nsfw, NarrowPosition(channel_config.position), None, None)

\* update_channel_if_needed, config.rs:199-213.
EditChannelOf(channel_config) ==
    Payload(None, Some(channel_config.name), channel_config.topic,
            channel_config.nsfw, NarrowPosition(channel_config.position), None, None)

\* create_channel without line 230: the new channel gets no category.
CreateChannelOf_NoCategory(channel_name, channel_config, category_id) ==
    Payload(Some("Text"), Some(channel_name), channel_config.topic,
            channel_config.nsfw, NarrowPosition(channel_config.position),
            None, None)

\* create_channel, config.rs:227-240.
CreateChannelOf(channel_name, channel_config, category_id) ==
    Payload(Some("Text"), Some(channel_name), channel_config.topic,
            channel_config.nsfw, NarrowPosition(channel_config.position),
            Some(category_id), None)

\* ---------------------------------------------------------------- diff evaluator
\* update_guild_info comparing the icon hash, not icon_url(), on line 65.
GuildNeedsUpdate_IconHash(g, server_config) ==
    \/ g.name # server_config.name
    \/ g.icon # server_config.icon_url

\* update_guild_info without line 65: the name alone decides.
GuildNeedsUpdate_NameOnly(g, server_config) ==
    g.name # server_config.name

\* update_guild_info, config.rs:64-65.
GuildNeedsUpdate(g, server_config) ==
    \/ g.name # server_config.name
    \/ icon_url(g) # server_config.icon_url

\* update_category_if_needed testing the description alone on line 136.
CategoryNeedsUpdate_DescriptionOnly(category_config) ==
    IsSome(category_config.description)

\* update_category_if_needed without the condition of line 136.
CategoryNeedsUpdate_Always(category_config) == TRUE

\* update_category_if_needed, config.rs:136.
CategoryNeedsUpdate(category_config) ==
    IsSome(category_config.description) \/ IsSome(category_config.nsfw)

\* ---------------------------------------------------------------- resource matcher
\* find_or_create_category without the kind test of line 109.
FindCategory_AnyKind(channels, category_name) ==
    {id \in DOMAIN channels : channels[id].name = category_name}

\* find_or_create_category, config.rs:107-109: the candidates of `find`; the
\* HashMap's iteration order decides which of several is returned.
FindCategory(channels, category_name) ==
    {id \in DOMAIN channels :
        channels[id].kind = "Category" /\ channels[id].name = category_name}

\* find_or_create_channel without the parent_id test of line 184.
FindChannel_AnyParent(channels, channel_name, category_id) ==
    {id \in DOMAIN channels :
        /\ channels[id].kind = "Text"
        /\ channels[id].name = channel_name}

\* find_or_create_channel, config.rs:183-185.
FindChannel(channels, channel_name, category_id) ==
    {id \in DOMAIN channels :
        /\ channels[id].kind = "Text"
        /\ channels[id].name = channel_name
        /\ channels[id].parent_id = Some(category_id)}

\* ---------------------------------------------------------------- the platform
\* What the guild holds after a successful create call: the new resource gets
\* the next id.
ApplyCreate(list, req) ==
    Append(list, GuildChannel(Unwrap(req.kind), Unwrap(req.name), req.parent_id,
                              req.topic, req.nsfw, req.position))

Patch(old, new) == IF IsSome(new) THEN new ELSE old

\* What the guild holds after a successful edit call: transmitted fields
\* replace the stored ones, the others stay.
ApplyEdit(list, id, req) ==
    [list EXCEPT ![id] =
        [kind |-> IF IsSome(req.kind) THEN Unwrap(req.kind) ELSE @.kind,
         name |-> IF IsSome(req.name) THEN Unwrap(req.name) ELSE @.name,
         parent_id |-> Patch(@.parent_id, req.parent_id),
         topic |-> Patch(@.topic, req.topic),
         nsfw |-> Patch(@.nsfw, req.nsfw),
         position |-> Patch(@.position, req.position)]]

ApplyEditGuild(g, req) ==
    [name |-> IF IsSome(req.name) THEN Unwrap(req.name) ELSE g.name,
     icon |-> Patch(g.icon, req.icon)]

\* One remote call as issued: the operation, the id it targets (for a
\* successful create, the id it returned; 0 when there is none), what it
\* transmits, whether it succeeded, and the desired category and channel the
\* pass issued it for.
Call(op, id, req, ok, category, channel) ==
    [op |-> op, id |-> id, req |-> req, ok |-> ok,
     category |-> category, channel |-> channel]

\* ---------------------------------------------------------------- state
VARIABLES
    guild,           \* the remote guild: its name and icon hash
    guild_channels,  \* the remote guild's categories and channels, by id
    inputs,          \* the configurations the operator may send
    passes,          \* invocations of `run` started so far
    last,            \* the invocation that returned most recently
    pass             \* per invocation: the locals of `run` and its callees

vars == <<guild, guild_channels, inputs, passes, last, pass>>

\* ---------------------------------------------------------------- set
\* What `set` reads of a message (set.rs:13-27): the guild id, and the text
\* of the content that is handed to serde_yaml, given by what it deserializes
\* into: Some(config), or None for a text that is no Config.
Message(guild_id, yaml) == [guild_id |-> guild_id, yaml |-> yaml]

NoMessage == Message(None, None)

\* set.rs:17-23: the text handed to serde_yaml, which is the first capture
\* of the ```yaml fence, else the whole content.
YamlContent(message) == message.yaml

\* CommandError::User(..) and CommandError::System(..) (error.rs:6-9).
User(text) == [kind |-> "User", text |-> text]
System(text) == [kind |-> "System", text |-> text]

\* A guard that does not look at the guild id of the message.
SetGuard_NoGuildCheck(message) ==
    IF YamlContent(message) = None
    THEN Some(User("Invalid YAML structure for configuring the server."))
    ELSE None

\* set.rs:13-27: the error `set` returns before it says anything, if any.
SetGuard(message) ==
    IF message.guild_id = None
    THEN Some(User("Cannot run this outside of a Guild."))
    ELSE IF YamlContent(message) = None
    THEN Some(User("Invalid YAML structure for configuring the server."))
    ELSE None

\* The locals of an invocation that has not been called.  Besides the locals
\* of the code (config, guild, channels, category_id) and its position (pc,
\* order, visited), a record keeps for the properties: the guild as fetched,
\* the id resolved for each category, the calls issued, and the result and
\* the error value `run` returns.
Idle ==
    [pc |-> "idle",
     message |-> NoMessage,
     said |-> <<>>,
     res |-> None,
     config |-> ServerConfig("", None, NoCategories),
     guild |-> [name |-> "", icon |-> None],
     fetched |-> [name |-> "", icon |-> None],
     channels |-> <<>>,
     order |-> <<>>,
     resolved |-> {},
     visited |-> {},
     category_id |-> 0,
     result |-> "none",
     error |-> None,
     calls |-> <<>>]

NoLast == [config |-> None, result |-> "none", calls |-> <<>>]

\* The category being processed: the one the loop of process_categories
\* (config.rs:82) took most recently.
Current(r) == r.order[Len(r.order)]

\* A failed remote call that is recorded and skipped: the pass goes on with
\* the next category.
Propagate_Skip(r, call) ==
    [r EXCEPT !.pc = "process_categories", !.calls = Append(@, call)]

\* A failed remote call that is recorded while the pass stays where it is,
\* so that the step is taken again.
Propagate_Retry(r, call) ==
    [r EXCEPT !.calls = Append(@, call)]

\* `?` on a failed remote call (config.rs:44, 70, 125, 147, 215, 242): the
\* error is returned through every caller up to `run`, and nothing else runs.
Propagate(r, call) ==
    [r EXCEPT !.pc = "done", !.result = "SerenityError", !.error = Some(call),
              !.calls = Append(@, call)]

\* ---------------------------------------------------------------- run
\* The messages the handler may receive: with or without a guild id, holding
\* one of the configurations or a text that is none.
Messages ==
    {Message(g, y) : g \in {None, Some(1)},
                     y \in {None} \cup {Some(config) : config \in inputs}}

\* set.rs:13-34: the message passes the guard, "Configuring..." is said and
\* `set` invokes run(config, context, guild_id) (config.rs:36).
Run(p) ==
    /\ pass[p].pc = "idle"
    /\ passes < MaxPasses
    /\ \E message \in Messages :
          /\ SetGuard(message) = None
          /\ pass' = [pass EXCEPT ![p] =
                        [Idle EXCEPT !.pc = "get_guild",
                                     !.message = message,
                                     !.said = <<"Configuring...">>,
                                     !.config = Unwrap(YamlContent(message))]]
    /\ passes' = passes + 1
    /\ UNCHANGED <<guild, guild_channels, inputs, last>>

\* set.rs:13-27: the guard returns a user error; nothing is said, run is
\* not invoked.
SetReject(p) ==
    /\ pass[p].pc = "idle"
    /\ \E message \in Messages :
          /\ SetGuard(message) # None
          /\ pass' = [pass EXCEPT ![p] =
                        [Idle EXCEPT !.pc = "returned",
                                     !.message = message,
                                     !.res = SetGuard(message)]]
    /\ UNCHANGED <<guild, guild_channels, inputs, passes, last>>

\* set.rs:29-32: the message passes the guard but saying "Configuring..."
\* fails; `?` returns the error as CommandError::System (error.rs:36-40).
SetSayFail(p) ==
    /\ pass[p].pc = "idle"
    /\ \E message \in Messages :
          /\ SetGuard(message) = None
          /\ pass' = [pass EXCEPT ![p] =
                        [Idle EXCEPT !.pc = "returned",
                                     !.message = message,
                                     !.res = Some(System("say"))]]
    /\ UNCHANGED <<guild, guild_channels, inputs, passes, last>>

\* lib.rs:41-57 and 64-71: execute_command says the text of a user error
\* and hands a system error to the handler, which prints it; the invocation
\* is over.
ExecuteCommand(p) ==
    /\ pass[p].pc = "returned"
    /\ pass' = [pass EXCEPT ![p] = Idle]
    /\ UNCHANGED <<guild, guild_channels, inputs, passes, last>>

\* config.rs:37-42: get_guild succeeds and `guild` holds what the platform has.
GetGuildOk(p) ==
    /\ pass[p].pc = "get_guild"
    /\ pass' = [pass EXCEPT ![p] =
            [@ EXCEPT !.pc = "channels", !.guild = guild, !.fetched = guild,
                      !.calls = Append(@, Call("get_guild", 0, NoPayload, TRUE, None, None))]]
    /\ UNCHANGED <<guild, guild_channels, inputs, passes, last>>

\* get_guild(..).await? without the map_err of line 41: the error of the
\* call is returned as it is.
MapErrGuildNotFound_Plain(r, call) == Propagate(r, call)

\* config.rs:41: map_err(|_| Error::GuildNotFound)? drops the error of the call
\* and returns GuildNotFound from `run`.
MapErrGuildNotFound(r, call) ==
    [r EXCEPT !.pc = "done", !.result = "GuildNotFound",
              !.calls = Append(@, call)]

\* config.rs:37-42: get_guild fails.
GetGuildFail(p) ==
    /\ pass[p].pc = "get_guild"
    /\ pass' = [pass EXCEPT ![p] =
            MapErrGuildNotFound(@, Call("get_guild", 0, NoPayload, FALSE, None, None))]
    /\ UNCHANGED <<guild, guild_channels, inputs, passes, last>>

\* A fetch that answers with no channel at all.
ChannelsOk_Empty(p) ==
    /\ pass[p].pc = "channels"
    /\ pass' = [pass EXCEPT ![p] =
            [@ EXCEPT !.pc = "update_guild_info", !.channels = <<>>,
                      !.calls = Append(@, Call("channels", 0, NoPayload, TRUE, None, None))]]
    /\ UNCHANGED <<guild, guild_channels, inputs, passes, last>>

\* config.rs:44: the snapshot of the guild's channels, fetched once.
ChannelsOk(p) ==
    /\ pass[p].pc = "channels"
    /\ pass' = [pass EXCEPT ![p] =
            [@ EXCEPT !.pc = "update_guild_info", !.channels = guild_channels,
                      !.calls = Append(@, Call("channels", 0, NoPayload, TRUE, None, None))]]
    /\ UNCHANGED <<guild, guild_channels, inputs, passes, last>>

ChannelsFail(p) ==
    /\ pass[p].pc = "channels"
    /\ pass' = [pass EXCEPT ![p] =
            Propagate(@, Call("channels", 0, NoPayload, FALSE, None, None))]
    /\ UNCHANGED <<guild, guild_channels, inputs, passes, last>>

\* update_guild_info, config.rs:59-73, when the condition of line 64 is false.
UpdateGuildInfoSkip(p) ==
    /\ pass[p].pc = "update_guild_info"
    /\ ~GuildNeedsUpdate(pass[p].guild, pass[p].config)
    /\ pass' = [pass EXCEPT ![p] = [@ EXCEPT !.pc = "process_categories"]]
    /\ UNCHANGED <<guild, guild_channels, inputs, passes, last>>

\* config.rs:67-70: the edit succeeds; PartialGuild::edit stores the answer
\* in the local guild.
UpdateGuildInfoOk(p) ==
    /\ pass[p].pc = "update_guild_info"
    /\ GuildNeedsUpdate(pass[p].guild, pass[p].config)
    /\ LET req == EditGuildOf(pass[p].config)
           new == ApplyEditGuild(guild, req)
       IN /\ guild' = new
          /\ pass' = [pass EXCEPT ![p] =
                [@ EXCEPT !.pc = "process_categories", !.guild = new,
                          !.calls = Append(@, Call("edit_guild", 0, req, TRUE, None, None))]]
    /\ UNCHANGED <<guild_channels, inputs, passes, last>>

UpdateGuildInfoFail(p) ==
    /\ pass[p].pc = "update_guild_info"
    /\ GuildNeedsUpdate(pass[p].guild, pass[p].config)
    /\ pass' = [pass EXCEPT ![p] =
            Propagate(@, Call("edit_guild", 0, EditGuildOf(pass[p].config), FALSE, None, None))]
    /\ UNCHANGED <<guild, guild_channels, inputs, passes, last>>

\* ---------------------------------------------------------------- categories
\* The keys the loop of process_categories (config.rs:82) has not taken yet;
\* a HashMap yields them in an order of its own.
RemainingCategories(r) == DOMAIN r.config.categories \ Range(r.order)

\* The keys the loop of process_channels (config.rs:160) has not taken yet.
RemainingChannels(r) ==
    {k \in DOMAIN r.config.categories[Current(r)].channels :
        <<Current(r), k>> \notin r.visited}

\* process_categories handing process_channels the id of the category taken
\* before (the id is not replaced by the one just resolved).
Resolved_StaleId(r, category_name, id, calls) ==
    [r EXCEPT !.pc = "process_channels", !.order = Append(@, category_name),
              !.resolved = @ \cup {<<category_name, id>>},
              !.calls = @ \o calls]

\* What find_or_create_category leaves on Ok(id) (config.rs:112, 126), and
\* process_categories passing the id to process_channels (config.rs:86-93).
Resolved(r, category_name, id, calls) ==
    [r EXCEPT !.pc = "process_channels", !.order = Append(@, category_name),
              !.resolved = @ \cup {<<category_name, id>>},
              !.category_id = id, !.calls = @ \o calls]

\* config.rs:107-112 with update_category_if_needed skipping the edit (line 136).
CategoryMatchedNoEdit(p) ==
    /\ pass[p].pc = "process_categories"
    /\ \E category_name \in RemainingCategories(pass[p]) :
       \E id \in FindCategory(pass[p].channels, category_name) :
          /\ ~CategoryNeedsUpdate(pass[p].config.categories[category_name])
          /\ pass' = [pass EXCEPT ![p] = Resolved(@, category_name, id, <<>>)]
    /\ UNCHANGED <<guild, guild_channels, inputs, passes, last>>

\* config.rs:107-112 and 137-147: the matched category is edited.
CategoryEditOk(p) ==
    /\ pass[p].pc = "process_categories"
    /\ \E category_name \in RemainingCategories(pass[p]) :
       \E id \in FindCategory(pass[p].channels, category_name) :
          LET category_config == pass[p].config.categories[category_name]
              req == EditCategoryOf(category_config)
          IN /\ CategoryNeedsUpdate(category_config)
             /\ guild_channels' = ApplyEdit(guild_channels, id, req)
             /\ pass' = [pass EXCEPT ![p] = Resolved(@, category_name, id,
                    <<Call("edit_channel", id, req, TRUE, Some(category_name), None)>>)]
    /\ UNCHANGED <<guild, inputs, passes, last>>

CategoryEditFail(p) ==
    /\ pass[p].pc = "process_categories"
    /\ \E category_name \in RemainingCategories(pass[p]) :
       \E id \in FindCategory(pass[p].channels, category_name) :
          LET category_config == pass[p].config.categories[category_name]
              req == EditCategoryOf(category_config)
          IN /\ CategoryNeedsUpdate(category_config)
             /\ pass' = [pass EXCEPT ![p] =
                    Propagate([@ EXCEPT !.order = Append(@, category_name)],
                        Call("edit_channel", id, req, FALSE, Some(category_name), None))]
    /\ UNCHANGED <<guild, guild_channels, inputs, passes, last>>

\* config.rs:113-126: no category matches and one is created.
CategoryCreateOk(p) ==
    /\ pass[p].pc = "process_categories"
    /\ \E category_name \in RemainingCategories(pass[p]) :
          LET req == CreateCategoryOf(category_name, pass[p].config.categories[category_name])
              id == Len(guild_channels) + 1
          IN /\ FindCategory(pass[p].channels, category_name) = {}
             /\ guild_channels' = ApplyCreate(guild_channels, req)
             /\ pass' = [pass EXCEPT ![p] = Resolved(@, category_name, id,
                    <<Call("create_channel", id, req, TRUE, Some(category_name), None)>>)]
    /\ UNCHANGED <<guild, inputs, passes, last>>

CategoryCreateFail(p) ==
    /\ pass[p].pc = "process_categories"
    /\ \E category_name \in RemainingCategories(pass[p]) :
          LET req == CreateCategoryOf(category_name, pass[p].config.categories[category_name])
          IN /\ FindCategory(pass[p].channels, category_name) = {}
             /\ pass' = [pass EXCEPT ![p] =
                    Propagate([@ EXCEPT !.order = Append(@, category_name)],
                        Call("create_channel", 0, req, FALSE, Some(category_name), None))]
    /\ UNCHANGED <<guild, guild_channels, inputs, passes, last>>

\* config.rs:95 and 55: the loop is over, process_categories and run return Ok.
CategoriesDone(p) ==
    /\ pass[p].pc = "process_categories"
    /\ RemainingCategories(pass[p]) = {}
    /\ pass' = [pass EXCEPT ![p] = [@ EXCEPT !.pc = "done", !.result = "Ok"]]
    /\ UNCHANGED <<guild, guild_channels, inputs, passes, last>>

\* ---------------------------------------------------------------- channels
\* config.rs:183-186 and 199-215: the matched channel is edited.
ChannelEditOk(p) ==
    /\ pass[p].pc = "process_channels"
    /\ \E channel_name \in RemainingChannels(pass[p]) :
       \E id \in FindChannel(pass[p].channels, channel_name, pass[p].category_id) :
          LET cat == Current(pass[p])
              req == EditChannelOf(pass[p].config.categories[cat].channels[channel_name])
          IN /\ guild_channels' = ApplyEdit(guild_channels, id, req)
             /\ pass' = [pass EXCEPT ![p] =
                    [@ EXCEPT !.visited = @ \cup {<<cat, channel_name>>},
                              !.calls = Append(@, Call("edit_channel", id, req, TRUE,
                                                       Some(cat), Some(channel_name)))]]
    /\ UNCHANGED <<guild, inputs, passes, last>>

ChannelEditFail(p) ==
    /\ pass[p].pc = "process_channels"
    /\ \E channel_name \in RemainingChannels(pass[p]) :
       \E id \in FindChannel(pass[p].channels, channel_name, pass[p].category_id) :
          LET cat == Current(pass[p])
              req == EditChannelOf(pass[p].config.categories[cat].channels[channel_name])
          IN pass' = [pass EXCEPT ![p] =
                    Propagate([@ EXCEPT !.visited = @ \cup {<<cat, channel_name>>}],
                        Call("edit_channel", id, req, FALSE, Some(cat), Some(channel_name)))]
    /\ UNCHANGED <<guild, guild_channels, inputs, passes, last>>

\* config.rs:187-188 and 227-243: no channel matches and one is created.
ChannelCreateOk(p) ==
    /\ pass[p].pc = "process_channels"
    /\ \E channel_name \in RemainingChannels(pass[p]) :
          LET cat == Current(pass[p])
              req == CreateChannelOf(channel_name,
                        pass[p].config.categories[cat].channels[channel_name],
                        pass[p].category_id)
              id == Len(guild_channels) + 1
          IN /\ FindChannel(pass[p].channels, channel_name, pass[p].category_id) = {}
             /\ guild_channels' = ApplyCreate(guild_channels, req)
             /\ pass' = [pass EXCEPT ![p] =
                    [@ EXCEPT !.visited = @ \cup {<<cat, channel_name>>},
                              !.calls = Append(@, Call("create_channel", id, req, TRUE,
                                                       Some(cat), Some(channel_name)))]]
    /\ UNCHANGED <<guild, inputs, passes, last>>

ChannelCreateFail(p) ==
    /\ pass[p].pc = "process_channels"
    /\ \E channel_name \in RemainingChannels(pass[p]) :
          LET cat == Current(pass[p])
              req == CreateChannelOf(channel_name,
                        pass[p].config.categories[cat].channels[channel_name],
                        pass[p].category_id)
          IN /\ FindChannel(pass[p].channels, channel_name, pass[p].category_id) = {}
             /\ pass' = [pass EXCEPT ![p] =
                    Propagate([@ EXCEPT !.visited = @ \cup {<<cat, channel_name>>}],
                        Call("create_channel", 0, req, FALSE, Some(cat), Some(channel_name)))]
    /\ UNCHANGED <<guild, guild_channels, inputs, passes, last>>

\* config.rs:171: the loop over the category's channels is over.
ChannelsDone(p) ==
    /\ pass[p].pc = "process_channels"
    /\ RemainingChannels(pass[p]) = {}
    /\ pass' = [pass EXCEPT ![p] = [@ EXCEPT !.pc = "process_categories"]]
    /\ UNCHANGED <<guild, guild_channels, inputs, passes, last>>

\* run has returned; its result is with the caller and its locals are dropped.
Return(p) ==
    /\ pass[p].pc = "done"
    /\ last' = [config |-> Some(pass[p].config), result |-> pass[p].result,
                calls |-> pass[p].calls]
    /\ pass' = [pass EXCEPT ![p] = Idle]
    /\ UNCHANGED <<guild, guild_channels, inputs, passes>>

\* ---------------------------------------------------------------- inputs
\* A channel with no optional field, named as its key or otherwise.
Plain(name) == ChannelConfig(name, None, None, None)

Category(name) == GuildChannel("Category", name, None, None, None, None)
Text(name, parent) == GuildChannel("Text", name, Some(parent), None, None, None)

Quiet == [name |-> "New", icon |-> None]

\* Categories A (one channel, key x) and B (none); the channel's name field
\* equals its key or differs from it.  The guild is empty or has A and x.
Converging ==
    [configs |->
        {ServerConfig("New", None,
            [k \in {"A", "B"} |->
                IF k = "A"
                THEN CategoryConfig([c \in {"x"} |-> Plain(n)], None, None)
                ELSE CategoryConfig(NoChannels, None, None)]) : n \in {"x", "y"}},
     guilds |->
        {[guild |-> Quiet, channels |-> <<>>],
         [guild |-> Quiet, channels |-> <<Category("A"), Text("x", 1)>>]}]

\* A channel keyed "general" under A and another under B, configured
\* differently; the guild has both categories, and "general" under B only or
\* under both, beside resources that must not match.
Scoped ==
    [configs |->
        {ServerConfig("New", None,
            [k \in {"A", "B"} |->
                IF k = "A"
                THEN CategoryConfig(
                        [c \in {"general"} |->
                            ChannelConfig("general", Some("for A"), None, Some(65541))],
                        None, None)
                ELSE CategoryConfig(
                        [c \in {"general"} |->
                            ChannelConfig("general", Some("for B"), Some(TRUE), None)],
                        Some("d"), None)])},
     guilds |->
        {[guild |-> Quiet,
          channels |-> <<Category("A"), Category("B"), Text("general", 2),
                         GuildChannel("Other", "general", Some(1), None, None, None)>>],
         [guild |-> Quiet,
          channels |-> <<Category("B"), Text("general", 1), Category("A"),
                         Text("general", 3),
                         GuildChannel("Text", "general", None, None, None, None)>>]}]

\* Three categories, two of them with a channel.
Three ==
    [configs |->
        {ServerConfig("New", None,
            [k \in {"A", "B", "C"} |->
                CategoryConfig(
                    IF k = "A" THEN NoChannels ELSE [c \in {"x"} |-> Plain("x")],
                    IF k = "C" THEN Some("d") ELSE None,
                    None)])},
     guilds |->
        {[guild |-> Quiet, channels |-> <<>>],
         [guild |-> Quiet, channels |-> <<Category("C")>>]}]

\* The server's name and icon against the guild's.
Named ==
    [configs |->
        {ServerConfig(n, i, [k \in {"A"} |-> CategoryConfig(NoChannels, None, Some(FALSE))]) :
            n \in {"Old", "New"}, i \in {None, Some("cdn/h1")}},
     guilds |->
        {[guild |-> [name |-> "Old", icon |-> i], channels |-> chs] :
            i \in {None, Some("h1"), Some("h2")},
            chs \in {<<>>, <<Category("A")>>}}]

\* Category A with a channel keyed "general" that has a position, against
\* guilds whose resources nearly match: another letter case, another kind,
\* another parent or none.
NearMiss ==
    [configs |->
        {ServerConfig("New", None,
            [k \in {"A"} |->
                CategoryConfig(
                    [c \in {"general"} |-> ChannelConfig("general", None, None, Some(n))],
                    None, None)]) : n \in {7, 65536, 2147483647}},
     guilds |->
        {[guild |-> Quiet,
          channels |-> <<Category("a"), Text("general", 1),
                         GuildChannel("Other", "A", None, None, None, None),
                         GuildChannel("Text", "general", None, None, None, None)>>],
         [guild |-> Quiet,
          channels |-> <<Category("A"), Text("General", 1),
                         GuildChannel("Other", "general", Some(1), None, None, None),
                         Category("B"), Text("general", 4)>>],
         [guild |-> Quiet,
          channels |-> <<Category("A"), Text("general", 1)>>]}]

\* One category with one channel, with and without fields that lead to a
\* guild edit and a category edit, against guilds that hold nothing, the
\* category, or the category and the channel.
Racing ==
    [configs |->
        {ServerConfig("New", None,
            [k \in {"A"} |-> CategoryConfig([c \in {"x"} |-> Plain("x")], None, None)]),
         ServerConfig("Newer", None,
            [k \in {"A"} |-> CategoryConfig([c \in {"x"} |-> Plain("x")], Some("d"), None)])},
     guilds |->
        {[guild |-> Quiet, channels |-> <<>>],
         [guild |-> Quiet, channels |-> <<Category("A")>>],
         [guild |-> Quiet, channels |-> <<Category("A"), Text("x", 1)>>]}]

Families == {Converging, Scoped, Three, Named, NearMiss}

Init ==
    /\ \E f \in Families :
          /\ inputs = f.configs
          /\ \E g \in f.guilds :
                /\ guild = g.guild
                /\ guild_channels = g.channels
    /\ passes = 0
    /\ last = NoLast
    /\ pass = [p \in Procs |-> Idle]

Step(p) ==
    \/ Run(p)
    \/ SetReject(p)
    \/ SetSayFail(p)
    \/ ExecuteCommand(p)
    \/ GetGuildOk(p)
    \/ GetGuildFail(p)
    \/ ChannelsOk(p)
    \/ ChannelsFail(p)
    \/ UpdateGuildInfoSkip(p)
    \/ UpdateGuildInfoOk(p)
    \/ UpdateGuildInfoFail(p)
    \/ CategoryMatchedNoEdit(p)
    \/ CategoryEditOk(p)
    \/ CategoryEditFail(p)
    \/ CategoryCreateOk(p)
    \/ CategoryCreateFail(p)
    \/ CategoriesDone(p)
    \/ ChannelEditOk(p)
    \/ ChannelEditFail(p)
    \/ ChannelCreateOk(p)
    \/ ChannelCreateFail(p)
    \/ ChannelsDone(p)
    \/ Return(p)

\* Invocations run one after the other.
Next == \E p \in SeqProcs : Step(p)

Spec == Init /\ [][Next]_vars

\* Two messages handled at once (lib.rs:64-71: the framework calls `message`
\* for each event without waiting for the one before; Handler holds no lock
\* that `set` takes): the steps of the two invocations interleave.
InitConc ==
    /\ inputs = Racing.configs
    /\ \E g \in Racing.guilds :
          /\ guild = g.guild
          /\ guild_channels = g.channels
    /\ passes = 0
    /\ last = NoLast
    /\ pass = [p \in Procs |-> Idle]

NextConc == \E p \in Procs : Step(p)

SpecConc == InitConc /\ [][NextConc]_vars

TypeOK ==
    /\ passes \in 0..MaxPasses
    /\ \A p \in Procs :
          pass[p].pc \in {"idle", "get_guild", "channels", "update_guild_info",
                          "process_categories", "process_channels", "done",
                          "returned"}

\* ---------------------------------------------------------------- properties
\* The indices of the calls of a log that are creates, edits of a channel or
\* category, and edits of the guild.
Creates(calls) == {i \in DOMAIN calls : calls[i].op = "create_channel"}
Edits(calls) == {i \in DOMAIN calls : calls[i].op = "edit_channel"}
GuildEdits(calls) == {i \in DOMAIN calls : calls[i].op = "edit_guild"}

\* The calls of a log issued for a desired category itself, or for the
\* desired channel with the given key under it.
ForCategory(calls, k) ==
    {i \in DOMAIN calls : calls[i].category = Some(k) /\ calls[i].channel = None}
ForChannel(calls, k, c) ==
    {i \in DOMAIN calls : calls[i].category = Some(k) /\ calls[i].channel = Some(c)}

\* The pass of p has returned Ok and the caller has not taken the result yet.
ReturnedOk(p) == pass[p].pc = "done" /\ pass[p].result = "Ok"

\* The pass of p ran with the configuration of the pass that returned before it.
SameAsLast(p) == last.config = Some(pass[p].config)

\* C1 (idempotence): when a pass returned Ok and the next pass, with the same
\* configuration, returns Ok too, the second pass has issued no create call,
\* neither for a category nor for a channel.
C1_SecondPassCreatesNothing ==
    \A p \in Procs :
        (ReturnedOk(p) /\ last.result = "Ok" /\ SameAsLast(p))
            => Creates(pass[p].calls) = {}

\* C2 (convergence): the desired categories are A with the one channel key x
\* and B with none.
ShapeAB(config) ==
    /\ DOMAIN config.categories = {"A", "B"}
    /\ DOMAIN config.categories["A"].channels = {"x"}
    /\ DOMAIN config.categories["B"].channels = {}

\* C2 (convergence): a pass of {A: {x}, B: {}} that fetched a guild without
\* channels and returned Ok leaves exactly three resources: the categories A
\* and B and one text channel named x whose parent is the id the create call
\* for A returned in this pass.
C2_Convergence ==
    \A p \in Procs :
        (ReturnedOk(p) /\ pass[p].channels = <<>> /\ ShapeAB(pass[p].config))
            => LET cats == {id \in DOMAIN guild_channels : guild_channels[id].kind = "Category"}
                   texts == {id \in DOMAIN guild_channels : guild_channels[id].kind = "Text"}
                   calls == pass[p].calls
               IN /\ Len(guild_channels) = 3
                  /\ Cardinality(cats) = 2
                  /\ {guild_channels[id].name : id \in cats} = {"A", "B"}
                  /\ Cardinality(texts) = 1
                  /\ \A t \in texts :
                        /\ guild_channels[t].name = "x"
                        /\ \E i \in ForCategory(calls, "A") :
                              /\ calls[i].op = "create_channel" /\ calls[i].ok
                              /\ guild_channels[calls[i].id].name = "A"
                              /\ guild_channels[t].parent_id = Some(calls[i].id)

\* C2 witness: such a pass has returned Ok, having taken B before A.
C2_Witness ==
    \E p \in Procs :
        /\ ReturnedOk(p) /\ pass[p].channels = <<>> /\ ShapeAB(pass[p].config)
        /\ pass[p].order = <<"B", "A">>
        /\ Len(guild_channels) = 3

\* All desired channels of a configuration, as <<category key, channel key>>.
DesiredChannels(config) ==
    UNION {{<<k, c>> : c \in DOMAIN config.categories[k].channels} :
              k \in DOMAIN config.categories}

\* C3 (create vs. update disjointness): in every state of a pass, no desired
\* category and no desired channel has both a create and an edit call; a
\* category the loop has taken has exactly one call, or none when a category
\* of that name was in the snapshot and its desired description and nsfw are
\* both absent; a channel the loop has taken has exactly one call; and a pass
\* that returned Ok has taken every desired category and channel.
C3_CreateEditDisjoint ==
    \A p \in Procs :
        LET r == pass[p]
            calls == r.calls
            cats == r.config.categories
        IN /\ \A k \in DOMAIN cats :
                LET mine == ForCategory(calls, k)
                    matched == \E id \in DOMAIN r.channels :
                                  /\ r.channels[id].kind = "Category"
                                  /\ r.channels[id].name = k
                    bare == cats[k].description = None /\ cats[k].nsfw = None
                IN /\ mine \subseteq Creates(calls) \cup Edits(calls)
                   /\ ~(mine \cap Creates(calls) # {} /\ mine \cap Edits(calls) # {})
                   /\ k \in Range(r.order) =>
                         Cardinality(mine) = IF matched /\ bare THEN 0 ELSE 1
                   /\ k \notin Range(r.order) => mine = {}
           /\ \A kc \in DesiredChannels(r.config) :
                LET mine == ForChannel(calls, kc[1], kc[2])
                IN /\ mine \subseteq Creates(calls) \cup Edits(calls)
                   /\ ~(mine \cap Creates(calls) # {} /\ mine \cap Edits(calls) # {})
                   /\ kc \in r.visited => Cardinality(mine) = 1
                   /\ kc \notin r.visited => mine = {}
           /\ ReturnedOk(p) =>
                /\ Range(r.order) = DOMAIN cats
                /\ r.visited = DesiredChannels(r.config)

\* C3 witness: a pass returned Ok in which one category got no call (matched,
\* nothing to send), another was created and a channel was edited.
C3_Witness ==
    \E p \in Procs :
        LET calls == pass[p].calls
        IN /\ ReturnedOk(p)
           /\ \E k \in DOMAIN pass[p].config.categories : ForCategory(calls, k) = {}
           /\ \E k \in DOMAIN pass[p].config.categories :
                 ForCategory(calls, k) \cap Creates(calls) # {}
           /\ \E kc \in DesiredChannels(pass[p].config) :
                 ForChannel(calls, kc[1], kc[2]) \cap Edits(calls) # {}

\* The id resolved in this pass for the desired category k.
ResolvedIds(r, k) == {kid[2] : kid \in {x \in r.resolved : x[1] = k}}

\* C4 (scoped matching): every call issued for a desired channel concerns a
\* text channel of its own category: an edit targets a text channel whose
\* parent is the id resolved for that category and not the id resolved for
\* any other category, and a create transmits that id as the parent.
C4_ScopedMatching ==
    \A p \in Procs :
        LET r == pass[p]
        IN \A i \in DOMAIN r.calls :
              LET call == r.calls[i]
              IN IsSome(call.channel) =>
                    LET k == Unwrap(call.category)
                    IN /\ Cardinality(ResolvedIds(r, k)) = 1
                       /\ call.op = "edit_channel" =>
                            /\ guild_channels[call.id].kind = "Text"
                            /\ guild_channels[call.id].parent_id \subseteq ResolvedIds(r, k)
                            /\ guild_channels[call.id].parent_id # None
                            /\ \A other \in r.resolved :
                                  other[1] # k =>
                                     guild_channels[call.id].parent_id # Some(other[2])
                       /\ call.op = "create_channel" =>
                            /\ call.req.parent_id \subseteq ResolvedIds(r, k)
                            /\ call.req.parent_id # None
                            /\ call.ok => guild_channels[call.id].parent_id = call.req.parent_id

\* C4 witness: with "general" desired under A and under B and present under B
\* only, a pass returned Ok having created A's and edited B's.
C4_Witness ==
    \E p \in Procs :
        LET calls == pass[p].calls
        IN /\ ReturnedOk(p)
           /\ {<<"A", "general">>, <<"B", "general">>} \subseteq DesiredChannels(pass[p].config)
           /\ ForChannel(calls, "A", "general") \cap Creates(calls) # {}
           /\ ForChannel(calls, "B", "general") \cap Edits(calls) # {}

\* C5 (fail-fast): with three desired categories, once the create call for
\* the second category taken has failed, the pass is over: that call is the
\* last one issued, no call exists for the third category or for a channel of
\* the second or third, and run returns the error of that call.
C5_FailFast ==
    \A p \in Procs :
        LET r == pass[p]
            calls == r.calls
        IN (/\ Cardinality(DOMAIN r.config.categories) = 3
            /\ Len(r.order) >= 2
            /\ \E i \in ForCategory(calls, r.order[2]) :
                  calls[i].op = "create_channel" /\ ~calls[i].ok)
           => /\ Len(r.order) = 2
              /\ \A i \in DOMAIN calls :
                    IsSome(calls[i].category) =>
                       \/ calls[i].category = Some(r.order[1])
                       \/ calls[i].category = Some(r.order[2]) /\ calls[i].channel = None
              /\ \A kc \in r.visited : kc[1] = r.order[1]
              /\ ~calls[Len(calls)].ok
              /\ calls[Len(calls)].category = Some(r.order[2])
              /\ r.pc = "done"
              /\ r.result = "SerenityError"
              /\ r.error = Some(calls[Len(calls)])

\* C5 witness: the first of three categories and its channel were created,
\* then the create call for the second category failed.
C5_Witness ==
    \E p \in Procs :
        LET r == pass[p]
        IN /\ Cardinality(DOMAIN r.config.categories) = 3
           /\ Len(r.order) = 2
           /\ r.pc = "done"
           /\ \E i \in ForCategory(r.calls, r.order[2]) :
                 r.calls[i].op = "create_channel" /\ ~r.calls[i].ok
           /\ \E i \in ForCategory(r.calls, r.order[1]) :
                 r.calls[i].op = "create_channel" /\ r.calls[i].ok
           /\ \E kc \in r.visited : kc[1] = r.order[1]

\* The pass of p has fetched the guild.
Fetched(p) == Len(pass[p].calls) >= 1 /\ pass[p].calls[1].ok

\* The pass of p has fetched guild and channels and is past update_guild_info.
PastGuildInfo(p) ==
    /\ Len(pass[p].calls) >= 2
    /\ pass[p].calls[2].ok
    /\ pass[p].pc # "update_guild_info"

\* C6 as stated (guild update not triggered by the icon alone): when the
\* fetched guild name equals the desired name, the pass issues no guild edit,
\* whatever the two icon references are.
C6_NoEditWhenNameEqual ==
    \A p \in Procs :
        (Fetched(p) /\ pass[p].fetched.name = pass[p].config.name)
            => GuildEdits(pass[p].calls) = {}

\* C6 amended: when the fetched guild name equals the desired name and the
\* fetched icon reference equals the desired icon reference (both absent or
\* the same address), the pass issues no guild edit.
C6_NoEditWhenNameAndIconEqual ==
    \A p \in Procs :
        (/\ Fetched(p)
         /\ pass[p].fetched.name = pass[p].config.name
         /\ icon_url(pass[p].fetched) = pass[p].config.icon_url)
            => GuildEdits(pass[p].calls) = {}

\* C6 witness: name and icon reference are equal, the icon present, and the
\* pass went past update_guild_info without a guild edit.
C6_Witness ==
    \E p \in Procs :
        /\ PastGuildInfo(p)
        /\ pass[p].fetched.name = pass[p].config.name
        /\ IsSome(pass[p].config.icon_url)
        /\ icon_url(pass[p].fetched) = pass[p].config.icon_url
        /\ GuildEdits(pass[p].calls) = {}

IssuedOps == {"get_guild", "channels", "edit_guild", "create_channel", "edit_channel"}

\* C8 (never destructive): no step removes a resource of the guild or changes
\* its kind or its parent, and every call a pass issues is a fetch, a create
\* or an edit.
C8_NeverDestructive ==
    [][/\ \A id \in DOMAIN guild_channels :
             /\ id \in DOMAIN guild_channels'
             /\ guild_channels'[id].kind = guild_channels[id].kind
             /\ guild_channels'[id].parent_id = guild_channels[id].parent_id
       /\ \A p \in Procs :
             \A i \in DOMAIN pass'[p].calls : pass'[p].calls[i].op \in IssuedOps]_vars

\* C8 witness: a pass that created a resource has returned, and a second pass
\* with another configuration has edited an existing resource and created one.
C8_Witness ==
    \E p \in Procs :
        LET calls == pass[p].calls
        IN /\ pass[p].pc = "done"
           /\ last.config # None /\ ~SameAsLast(p)
           /\ \E i \in Creates(last.calls) : last.calls[i].ok
           /\ \E i \in Creates(calls) : calls[i].ok
           /\ \E i \in Edits(calls) : calls[i].ok

\* A field of an edit that was transmitted is what the resource holds.
Holds(stored, sent) == IsSome(sent) => stored = sent

\* C9 (no retry, no rollback): a failed call is the last call of its pass and
\* ends it with an error; the guild changes only in a step that issues a
\* successful call (not in the failing step, not on return); and after every
\* step each successful create and edit of the pass is applied in the guild.
C9_NoRetryNoRollback ==
    [][/\ \A p \in Procs :
             LET r == pass'[p]
                 calls == r.calls
             IN /\ \A i \in DOMAIN calls :
                      ~calls[i].ok =>
                         /\ i = Len(calls)
                         /\ r.pc = "done"
                         /\ r.result \in {"SerenityError", "GuildNotFound"}
                /\ \A i \in Creates(calls) :
                      calls[i].ok =>
                         /\ calls[i].id \in DOMAIN guild_channels'
                         /\ guild_channels'[calls[i].id] =
                               GuildChannel(Unwrap(calls[i].req.kind), Unwrap(calls[i].req.name),
                                            calls[i].req.parent_id, calls[i].req.topic,
                                            calls[i].req.nsfw, calls[i].req.position)
                /\ \A i \in Edits(calls) :
                      calls[i].ok =>
                         LET now == guild_channels'[calls[i].id]
                         IN /\ Holds(Some(now.name), calls[i].req.name)
                            /\ Holds(now.topic, calls[i].req.topic)
                            /\ Holds(now.nsfw, calls[i].req.nsfw)
                            /\ Holds(now.position, calls[i].req.position)
                /\ \A i \in GuildEdits(calls) :
                      calls[i].ok => Holds(Some(guild'.name), calls[i].req.name)
       /\ (guild' # guild \/ guild_channels' # guild_channels) =>
             \E p \in Procs :
                /\ Len(pass'[p].calls) = Len(pass[p].calls) + 1
                /\ pass'[p].calls[Len(pass'[p].calls)].ok]_vars

\* C9 witness: run has returned a platform error after a create and an edit
\* of the same pass succeeded.
C9_Witness ==
    \E p \in Procs :
        LET calls == pass[p].calls
        IN /\ pass[p].pc = "done" /\ pass[p].result = "SerenityError"
           /\ \E i \in Creates(calls) : calls[i].ok
           /\ \E i \in Edits(calls) : calls[i].ok
           /\ ~calls[Len(calls)].ok

\* C10 (resuming after a failure): when a pass was aborted by an error and
\* the next pass, with the same configuration, returns Ok, then the second
\* pass has issued no create for a category or channel whose create succeeded
\* in the aborted pass, the guild has exactly one category named as each
\* desired category key, and under it exactly one text channel for each
\* desired channel (named as its key or as its name field).
C10_ResumeAfterFailure ==
    \A p \in Procs :
        (/\ ReturnedOk(p)
         /\ last.result \in {"SerenityError", "GuildNotFound"}
         /\ SameAsLast(p))
            => LET r == pass[p]
                   cats == r.config.categories
               IN /\ \A i \in Creates(r.calls) :
                        ~\E j \in Creates(last.calls) :
                            /\ last.calls[j].ok
                            /\ last.calls[j].category = r.calls[i].category
                            /\ last.calls[j].channel = r.calls[i].channel
                  /\ \A k \in DOMAIN cats :
                        LET ids == {id \in DOMAIN guild_channels :
                                       /\ guild_channels[id].kind = "Category"
                                       /\ guild_channels[id].name = k}
                        IN /\ Cardinality(ids) = 1
                           /\ \A c \in DOMAIN cats[k].channels :
                                 Cardinality({id \in DOMAIN guild_channels :
                                    /\ guild_channels[id].kind = "Text"
                                    /\ guild_channels[id].parent_id \subseteq ids
                                    /\ guild_channels[id].parent_id # None
                                    /\ guild_channels[id].name \in {c, cats[k].channels[c].name}})
                                 = 1

\* C11 (guild not found): a step in which the guild fetch fails ends the pass
\* with GuildNotFound, the failed fetch being its only call (no channel fetch,
\* no edit, no create), and leaves the guild and its channels as they were.
C11_GuildNotFound ==
    [][\A p \in Procs :
          (pass'[p].calls # <<>> /\ ~pass'[p].calls[1].ok)
             => /\ Len(pass'[p].calls) = 1
                /\ pass'[p].calls[1].op = "get_guild"
                /\ pass'[p].pc = "done"
                /\ pass'[p].result = "GuildNotFound"
                /\ pass'[p].error = None
                /\ pass'[p].channels = <<>>
                /\ guild' = guild
                /\ guild_channels' = guild_channels]_vars

\* C11 witness: run has returned GuildNotFound for a guild that has channels.
C11_Witness ==
    \E p \in Procs :
        /\ pass[p].pc = "done" /\ pass[p].result = "GuildNotFound"
        /\ Len(guild_channels) > 0

\* The desired channel a call was issued for.
ChannelConfigOf(config, call) ==
    config.categories[Unwrap(call.category)].channels[Unwrap(call.channel)]

\* C12 (the name field is authoritative): every create call and every edit
\* call issued for a desired channel transmits the channel's name field as
\* the name, and an edit targets a channel that bore that name in the
\* snapshot (the map key takes no part in the match).
C12_NameFieldAuthoritative ==
    \A p \in Procs :
        \A i \in DOMAIN pass[p].calls :
            LET call == pass[p].calls[i]
            IN IsSome(call.channel) =>
                  /\ call.req.name = Some(ChannelConfigOf(pass[p].config, call).name)
                  /\ call.op = "edit_channel" =>
                        pass[p].channels[call.id].name =
                            ChannelConfigOf(pass[p].config, call).name

\* The categories of a snapshot that bear the name k.
SnapshotCategories(r, k) ==
    {id \in DOMAIN r.channels :
        r.channels[id].kind = "Category" /\ r.channels[id].name = k}

\* C13 (category update trigger): for a desired category the loop has taken
\* and that a category of the snapshot matches, the pass has issued no create
\* and has issued one edit when the desired description or nsfw is present and
\* none otherwise, whatever the matched category holds; the edit targets a
\* matched id and transmits exactly the description (as topic) and the nsfw
\* that are present; unless the edit failed, the id resolved for the category
\* is a matched id.
C13_CategoryUpdateTrigger ==
    \A p \in Procs :
        LET r == pass[p]
        IN \A k \in Range(r.order) :
              LET matched == SnapshotCategories(r, k)
                  mine == ForCategory(r.calls, k)
                  desired == r.config.categories[k]
                  present == desired.description # None \/ desired.nsfw # None
              IN matched # {} =>
                    /\ mine \cap Creates(r.calls) = {}
                    /\ Cardinality(mine) = IF present THEN 1 ELSE 0
                    /\ \A i \in mine :
                          /\ r.calls[i].op = "edit_channel"
                          /\ r.calls[i].id \in matched
                          /\ r.calls[i].req = Payload(None, None, desired.description,
                                                      desired.nsfw, None, None, None)
                    /\ (\A i \in mine : r.calls[i].ok) =>
                          /\ ResolvedIds(r, k) # {}
                          /\ ResolvedIds(r, k) \subseteq matched
                          /\ \A i \in mine : ResolvedIds(r, k) = {r.calls[i].id}

\* C13 witness: a matched category that already held the desired nsfw was
\* edited again (nsfw present, description absent) and its id was resolved.
C13_Witness ==
    \E p \in Procs :
        LET r == pass[p]
        IN \E k \in Range(r.order) :
              \E id \in SnapshotCategories(r, k) :
                 /\ r.config.categories[k].nsfw # None
                 /\ r.config.categories[k].description = None
                 /\ r.channels[id].nsfw = r.config.categories[k].nsfw
                 /\ \E i \in ForCategory(r.calls, k) :
                       r.calls[i].op = "edit_channel" /\ r.calls[i].ok
                 /\ <<k, id>> \in r.resolved

\* The text channels of a snapshot that bear the name c under the parent id.
SnapshotChannels(r, c, id) ==
    {t \in DOMAIN r.channels :
        /\ r.channels[t].kind = "Text"
        /\ r.channels[t].name = c
        /\ r.channels[t].parent_id = Some(id)}

\* C14 (channel update is unconditional on a match): for a desired channel
\* the loop has taken and that a text channel of the snapshot matches (same
\* name as the key, parent the id resolved for its category), the pass has
\* issued exactly one call, an edit of a matched id; the edit transmits the
\* name field always, topic and nsfw as desired (absent when absent), a
\* position exactly when one is desired, and nothing else.
C14_ChannelEditUnconditional ==
    \A p \in Procs :
        LET r == pass[p]
        IN \A kc \in r.visited :
              LET desired == r.config.categories[kc[1]].channels[kc[2]]
                  mine == ForChannel(r.calls, kc[1], kc[2])
              IN \A id \in ResolvedIds(r, kc[1]) :
                    SnapshotChannels(r, kc[2], id) # {} =>
                       /\ Cardinality(mine) = 1
                       /\ \A i \in mine :
                             LET call == r.calls[i]
                             IN /\ call.op = "edit_channel"
                                /\ call.id \in SnapshotChannels(r, kc[2], id)
                                /\ call.req.name = Some(desired.name)
                                /\ call.req.topic = desired.topic
                                /\ call.req.nsfw = desired.nsfw
                                /\ IsSome(call.req.position) <=> IsSome(desired.position)
                                /\ call.req.kind = None
                                /\ call.req.parent_id = None
                                /\ call.req.icon = None

\* C14 witness: a matched channel whose desired optional fields are all absent
\* was edited, the edit transmitting the name alone.
C14_Witness ==
    \E p \in Procs :
        LET r == pass[p]
        IN \E kc \in r.visited :
              LET desired == r.config.categories[kc[1]].channels[kc[2]]
              IN /\ desired.topic = None /\ desired.nsfw = None /\ desired.position = None
                 /\ \E i \in ForChannel(r.calls, kc[1], kc[2]) :
                       /\ r.calls[i].op = "edit_channel" /\ r.calls[i].ok
                       /\ r.calls[i].req = Payload(None, Some(desired.name), None, None,
                                                   None, None, None)

\* The steps of a pass between the fetch of the snapshot and the return.
InPass(pc) == pc \in {"update_guild_info", "process_categories", "process_channels", "done"}

\* C15 (matcher predicate): an edit issued for a desired category targets a
\* resource that the snapshot holds as a Category with exactly the key as
\* name, and an edit issued for a desired channel one that the snapshot holds
\* as a Text channel with exactly the key as name and the resolved category
\* id as parent; a create is issued exactly when the snapshot holds no such
\* resource; the snapshot does not change between its fetch and the return,
\* and a step that issues no call leaves the guild as it was.
C15_MatcherPredicate ==
    [][/\ \A p \in Procs :
             LET r == pass'[p]
             IN /\ \A k \in Range(r.order) :
                      LET mine == ForCategory(r.calls, k)
                      IN /\ \A i \in mine \cap Edits(r.calls) :
                               /\ r.channels[r.calls[i].id].kind = "Category"
                               /\ r.channels[r.calls[i].id].name = k
                         /\ (mine \cap Creates(r.calls) # {}) <=>
                               (SnapshotCategories(r, k) = {})
                /\ \A kc \in r.visited :
                      LET mine == ForChannel(r.calls, kc[1], kc[2])
                      IN \A id \in ResolvedIds(r, kc[1]) :
                            /\ \A i \in mine \cap Edits(r.calls) :
                                  /\ r.channels[r.calls[i].id].kind = "Text"
                                  /\ r.channels[r.calls[i].id].name = kc[2]
                                  /\ r.channels[r.calls[i].id].parent_id = Some(id)
                            /\ (mine \cap Creates(r.calls) # {}) <=>
                                  (SnapshotChannels(r, kc[2], id) = {})
                /\ (InPass(pass[p].pc) /\ InPass(r.pc)) => r.channels = pass[p].channels
       /\ (\A p \in Procs : Len(pass'[p].calls) <= Len(pass[p].calls)) =>
             (guild' = guild /\ guild_channels' = guild_channels)]_vars

\* C15 witness: the snapshot held a category "a", a resource "A" of another
\* kind and a text channel "general" without parent, and the pass returned Ok
\* having created the category A and the channel general.
C15_Witness ==
    \E p \in Procs :
        LET r == pass[p]
        IN /\ ReturnedOk(p)
           /\ \E id \in DOMAIN r.channels :
                 r.channels[id].kind = "Category" /\ r.channels[id].name = "a"
           /\ \E id \in DOMAIN r.channels :
                 r.channels[id].kind = "Other" /\ r.channels[id].name = "A"
           /\ \E id \in DOMAIN r.channels :
                 /\ r.channels[id].kind = "Text" /\ r.channels[id].name = "general"
                 /\ r.channels[id].parent_id = None
           /\ \E i \in ForCategory(r.calls, "A") : r.calls[i].op = "create_channel"
           /\ \E i \in ForChannel(r.calls, "A", "general") : r.calls[i].op = "create_channel"

\* The place of the desired category of a call in the order the pass took
\* the categories in.
Place(r, call) == CHOOSE j \in DOMAIN r.order : r.order[j] = Unwrap(call.category)

\* The calls of a pass are in the order of the code: guild fetch, channel
\* fetch, at most one guild edit, then category by category the call for the
\* category itself followed by the calls for its channels; every call but the
\* last has succeeded; a channel create transmits as parent the id resolved
\* for its category, which is the id the create of that category returned
\* when the pass created it.
CallOrder(r) ==
    LET calls == r.calls
    IN /\ \A i \in DOMAIN calls :
             /\ (i = 1) <=> (calls[i].op = "get_guild")
             /\ (i = 2) <=> (calls[i].op = "channels")
             /\ calls[i].op = "edit_guild" => i = 3
             /\ i > 1 => calls[i - 1].ok
             /\ calls[i].op \in {"create_channel", "edit_channel"} <=> IsSome(calls[i].category)
             /\ IsSome(calls[i].category) => Unwrap(calls[i].category) \in Range(r.order)
       /\ \A i, j \in DOMAIN calls :
             (i < j /\ IsSome(calls[i].category) /\ IsSome(calls[j].category)) =>
                /\ Place(r, calls[i]) <= Place(r, calls[j])
                /\ calls[i].category = calls[j].category => IsSome(calls[j].channel)
       /\ \A i \in DOMAIN calls :
             (IsSome(calls[i].channel) /\ calls[i].op = "create_channel") =>
                LET k == Unwrap(calls[i].category)
                IN /\ calls[i].req.parent_id # None
                   /\ calls[i].req.parent_id \subseteq ResolvedIds(r, k)
                   /\ \A j \in ForCategory(calls, k) :
                         calls[j].op = "create_channel" =>
                            /\ j < i
                            /\ calls[i].req.parent_id = Some(calls[j].id)

\* C16 (sequential ordering): every step issues at most one call, in one
\* invocation, and after every step the calls of each pass are in the order
\* of the code.
C16_SequentialOrdering ==
    [][/\ \A p \in Procs :
             /\ Len(pass'[p].calls) <= Len(pass[p].calls) + 1
             /\ CallOrder(pass'[p])
       /\ \A p, q \in Procs :
             (pass'[p].calls # pass[p].calls /\ pass'[q].calls # pass[q].calls) => p = q]_vars

\* C16 witness: a pass returned Ok having created two categories and, under
\* each, a channel.
C16_Witness ==
    \E p \in Procs :
        LET r == pass[p]
        IN /\ ReturnedOk(p)
           /\ \E k1, k2 \in Range(r.order) :
                 /\ k1 # k2
                 /\ \A k \in {k1, k2} :
                       /\ \E i \in ForCategory(r.calls, k) :
                             r.calls[i].op = "create_channel" /\ r.calls[i].ok
                       /\ \E c \in DOMAIN r.config.categories[k].channels :
                             \E i \in ForChannel(r.calls, k, c) :
                                r.calls[i].op = "create_channel" /\ r.calls[i].ok

\* C17 (snapshot tracks creations): after any prefix of a pass the snapshot
\* of the pass holds every category and channel the pass has created so far,
\* and the pass has fetched the channels at most once.
C17_SnapshotTracksCreations ==
    \A p \in Procs :
        LET r == pass[p]
        IN /\ \A i \in Creates(r.calls) :
                 r.calls[i].ok => r.calls[i].id \in DOMAIN r.channels
           /\ Cardinality({i \in DOMAIN r.calls : r.calls[i].op = "channels"}) <= 1

\* The logs at hand: the one of each pass under way and the one of the pass
\* that returned last, each with the configuration of its pass.
Logs ==
    {[config |-> pass[p].config, calls |-> pass[p].calls] : p \in Procs}
    \cup {[config |-> Unwrap(last.config), calls |-> last.calls] : x \in last.config}

\* For every call issued for a desired channel: the operation, the desired
\* position and the transmitted position.
Positions ==
    UNION {{[op |-> log.calls[i].op,
             desired |-> ChannelConfigOf(log.config, log.calls[i]).position,
             sent |-> log.calls[i].req.position] :
                i \in {j \in DOMAIN log.calls : IsSome(log.calls[j].channel)}} :
           log \in Logs}

\* C20 (position narrowing): a channel create or edit transmits no position
\* when none is desired and otherwise the desired position reduced modulo
\* 2^16: a value below 2^16 that differs from the desired one by a multiple
\* of 2^16, hence the desired position itself exactly when that is below
\* 2^16; create and edit transmit the same value for the same desired
\* position.
C20_PositionNarrowing ==
    /\ \A e \in Positions :
          /\ e.desired = None => e.sent = None
          /\ IsSome(e.desired) =>
                /\ IsSome(e.sent)
                /\ Unwrap(e.sent) \in 0..(U16 - 1)
                /\ (Unwrap(e.desired) - Unwrap(e.sent)) % U16 = 0
                /\ (e.sent = e.desired) <=> (Unwrap(e.desired) < U16)
    /\ \A e, f \in Positions : e.desired = f.desired => e.sent = f.sent

\* C20 witness: a create and an edit were issued for the same desired
\* position of 2^16 or more, and both transmitted the same smaller value.
C20_Witness ==
    \E e, f \in Positions :
        /\ e.op = "create_channel" /\ f.op = "edit_channel"
        /\ e.desired = f.desired
        /\ IsSome(e.desired) /\ Unwrap(e.desired) >= U16
        /\ IsSome(e.sent) /\ e.sent = f.sent /\ Unwrap(e.sent) < Unwrap(e.desired)

\* The message belongs to a guild and its YAML text deserializes into a Config.
Acceptable(message) == IsSome(message.guild_id) /\ IsSome(message.yaml)

\* C18 (input guard of `set`): a step starts run only for a message that
\* belongs to a guild and whose YAML deserializes, with the deserialized
\* configuration and after "Configuring..." was said; for any other message
\* `set` returns a user error with nothing said and no call issued; an
\* invocation that has said something or issued a call has an acceptable
\* message; and handing the error to the caller changes nothing in the guild.
C18_InputGuard ==
    [][\A p \in Procs :
          LET r == pass[p]
              n == pass'[p]
          IN /\ (r.pc = "idle" /\ n.pc = "get_guild") =>
                   /\ Acceptable(n.message)
                   /\ n.message.yaml = Some(n.config)
                   /\ n.said = <<"Configuring...">>
                   /\ n.calls = <<>>
             /\ (r.pc = "idle" /\ n.pc # "idle" /\ ~Acceptable(n.message)) =>
                   /\ n.pc = "returned"
                   /\ \E e \in n.res : e.kind = "User"
                   /\ n.said = <<>>
                   /\ n.calls = <<>>
             /\ (n.said # <<>> \/ n.calls # <<>> \/ n.pc \notin {"idle", "returned"}) =>
                   Acceptable(n.message)
             /\ r.pc = "returned" =>
                   /\ n.pc = "idle"
                   /\ r.calls = <<>>
                   /\ UNCHANGED <<guild, guild_channels, passes, last>>]_vars

\* C18 witness: after an earlier command ran a pass, `set` has returned a
\* user error for a message without guild id whose YAML is a Config; nothing
\* was said and no call issued.
C18_Witness ==
    \E p \in Procs :
        /\ pass[p].pc = "returned"
        /\ \E e \in pass[p].res : e.kind = "User"
        /\ pass[p].message.guild_id = None
        /\ IsSome(pass[p].message.yaml)
        /\ pass[p].said = <<>> /\ pass[p].calls = <<>>
        /\ last # NoLast

\* The categories of the guild that bear the name k, and the text channels
\* that bear the name c under the category id.
CategoriesNamed(k) ==
    {id \in DOMAIN guild_channels :
        guild_channels[id].kind = "Category" /\ guild_channels[id].name = k}
TextsNamed(c, id) ==
    {t \in DOMAIN guild_channels :
        /\ guild_channels[t].kind = "Text"
        /\ guild_channels[t].name = c
        /\ guild_channels[t].parent_id = Some(id)}

\* Both invocations have gone through their pass with the same configuration
\* and neither has returned to its caller; no pass came before them.
BothDone ==
    /\ last = NoLast
    /\ \A p \in Procs : pass[p].pc = "done"
    /\ \A p, q \in Procs : pass[p].config = pass[q].config

\* The successful creates a pass has issued for the desired category k, and
\* for the desired channel c under it.
CreatedCategory(r, k) ==
    {i \in ForCategory(r.calls, k) : r.calls[i].op = "create_channel" /\ r.calls[i].ok}
CreatedChannel(r, k, c) ==
    {i \in ForChannel(r.calls, k, c) : r.calls[i].op = "create_channel" /\ r.calls[i].ok}

\* C19 (concurrent passes on one guild), as stated: when two invocations with
\* the same configuration have run at once, the guild holds at most one
\* category per desired category name and at most one text channel per
\* desired channel name under it.
C19_AtMostOne ==
    BothDone =>
        \A p \in Procs :
            \A k \in DOMAIN pass[p].config.categories :
                /\ Cardinality(CategoriesNamed(k)) <= 1
                /\ \A id \in CategoriesNamed(k) :
                      \A c \in DOMAIN pass[p].config.categories[k].channels :
                          Cardinality(TextsNamed(c, id)) <= 1

\* The categories named k that the guild held before the two invocations:
\* those it holds now less the ones they created (categories are neither
\* renamed nor deleted).
Began(k) ==
    CategoriesNamed(k) \ UNION {{pass[q].calls[i].id : i \in CreatedCategory(pass[q], k)} :
                                q \in Procs}

\* C19, amended: when two invocations with the same configuration have run
\* at once, each has created a desired category at most once and only when
\* its own snapshot held no category of that name; so a guild that began
\* with categories of that name ends with the same ones, and a guild that
\* began with none ends with at most two, one per invocation, and with two
\* only when both invocations fetched their snapshot before either created
\* the category.  Each invocation has created a desired channel at most once,
\* under the category it resolved, and only when its own snapshot held no
\* text channel of that name under that category.
C19_AtMostOnePerInvocation ==
    BothDone =>
        \A p \in Procs :
            \A k \in DOMAIN pass[p].config.categories :
                /\ Cardinality(CreatedCategory(pass[p], k)) <= 1
                /\ CreatedCategory(pass[p], k) # {} => SnapshotCategories(pass[p], k) = {}
                /\ Began(k) # {} =>
                      /\ CreatedCategory(pass[p], k) = {}
                      /\ CategoriesNamed(k) = Began(k)
                /\ Began(k) = {} =>
                      /\ Cardinality(CategoriesNamed(k)) <= Cardinality(Procs)
                      /\ Cardinality(CategoriesNamed(k)) = Cardinality(Procs) =>
                            \A q \in Procs :
                                /\ SnapshotCategories(pass[q], k) = {}
                                /\ CreatedCategory(pass[q], k) # {}
                /\ \A c \in DOMAIN pass[p].config.categories[k].channels :
                      /\ Cardinality(CreatedChannel(pass[p], k, c)) <= 1
                      /\ \A i \in CreatedChannel(pass[p], k, c) :
                            /\ ResolvedIds(pass[p], k) # {}
                            /\ \A rid \in ResolvedIds(pass[p], k) :
                                  /\ SnapshotChannels(pass[p], c, rid) = {}
                                  /\ pass[p].calls[i].req.parent_id = Some(rid)
                                  /\ guild_channels[pass[p].calls[i].id].parent_id = Some(rid)

\* C19 witness: both invocations returned Ok with the same configuration and
\* the guild holds two categories of a desired name.
C19_Witness ==
    /\ BothDone
    /\ \A p \in Procs : ReturnedOk(p)
    /\ \E p \in Procs :
          \E k \in DOMAIN pass[p].config.categories :
              Cardinality(CategoriesNamed(k)) = 2

====
